---- MODULE Spec2Model ----
(***************************************************************************)
(* Model of fire_data_analysis.py: the batch pipeline                      *)
(*   load_data -> preprocess_data -> summarize_data -> three plots.        *)
(* Text is modelled as a sequence of one-character strings so that the     *)
(* conversions of the Cleaner (astype(str), zfill, string concatenation,   *)
(* to_datetime under '%Y-%m-%d %H%M') are computed, not assumed.           *)
(***************************************************************************)
EXTENDS Integers, Sequences, FiniteSets, TLC

\* Largest number of data rows of the CSV file that is explored.
MaxRows == 2

(***************************************************************************)
(* Text helpers                                                            *)
(***************************************************************************)
DigitChars == <<"0", "1", "2", "3", "4", "5", "6", "7", "8", "9">>

IsDigit(c) == \E d \in 1..10 : DigitChars[d] = c

DigitVal(c) == (CHOOSE d \in 1..10 : DigitChars[d] = c) - 1

RECURSIVE TextToInt(_)
TextToInt(s) ==
    IF s = <<>> THEN 0
    ELSE 10 * TextToInt(SubSeq(s, 1, Len(s) - 1)) + DigitVal(s[Len(s)])

RECURSIVE IntToText(_)
IntToText(n) ==
    IF n < 10 THEN <<DigitChars[n + 1]>>
    ELSE IntToText(n \div 10) \o <<DigitChars[(n % 10) + 1]>>

(***************************************************************************)
(* The CSV file: the cells this model explores                             *)
(***************************************************************************)
DateCells ==
    { <<>>,
      <<"2","0","2","0","-","0","1","-","0","1">>,
      <<"2","0","2","0","-","0","6","-","1","5">>,
      <<"2","0","2","1","-","0","3","-","0","5">>,
      <<"2","0","2","1","-","0","2","-","3","0">>,
      <<"2","0","2","1","0","3","0","5">> }

TimeCells ==
    { <<"N","A">>,
      <<"5">>,
      <<"7","0","5">>,
      <<"1","2","3","0">>,
      <<"2","4","6","0">>,
      <<"1","2","3","4","5">>,
      <<"1","2","a">> }

FileRows == [acq_date : DateCells, acq_time : TimeCells]

AllColumns == {"acq_date", "acq_time", "satellite"}

Headers == { AllColumns, {"acq_time", "satellite"}, {"acq_date", "satellite"} }

BlankRow == [acq_date |-> <<>>, acq_time |-> <<>>]

Files ==
    { [exists |-> FALSE, header |-> AllColumns, rows |-> <<>>] }
    \cup { [exists |-> TRUE, header |-> AllColumns, rows |-> r] :
             r \in UNION { [1..n -> FileRows] : n \in 0..MaxRows } }
    \cup { [exists |-> TRUE, header |-> h, rows |-> [i \in 1..n |-> BlankRow]] :
             h \in Headers \ {AllColumns}, n \in 0..MaxRows }

(***************************************************************************)
(* load_data: pd.read_csv with na_values and dtype inference               *)
(***************************************************************************)
NaValues == { <<>>, <<" ">>, <<"N","A">>, <<"N","a","N">> }

NaN == [kind |-> "nan", n |-> 0, s |-> <<>>]

IsIntText(cell) == Len(cell) >= 1 /\ \A i \in 1..Len(cell) : IsDigit(cell[i])

\* Column dtype as read_csv infers it from the whole column (low_memory=False).
InferDtype(cells) ==
    IF cells = <<>> THEN "object"
    ELSE IF \A i \in 1..Len(cells) : cells[i] \in NaValues \/ IsIntText(cells[i])
         THEN IF \E i \in 1..Len(cells) : cells[i] \in NaValues
              THEN "float64" ELSE "int64"
         ELSE "object"

CellValue(cell, dtype) ==
    IF cell \in NaValues THEN NaN
    ELSE IF dtype = "int64" THEN [kind |-> "int", n |-> TextToInt(cell), s |-> <<>>]
    ELSE IF dtype = "float64" THEN [kind |-> "float", n |-> TextToInt(cell), s |-> <<>>]
    ELSE [kind |-> "str", n |-> 0, s |-> cell]

ReadCsv(f) ==
    LET dcol == [i \in 1..Len(f.rows) |-> f.rows[i].acq_date]
        tcol == [i \in 1..Len(f.rows) |-> f.rows[i].acq_time]
        ddt  == InferDtype(dcol)
        tdt  == InferDtype(tcol)
    IN [columns |-> f.header,
        dtypes  |-> [acq_date |-> ddt, acq_time |-> tdt],
        rows    |-> [i \in 1..Len(f.rows) |->
                       [index     |-> i,
                        acq_date  |-> CellValue(dcol[i], ddt),
                        acq_time  |-> CellValue(tcol[i], tdt),
                        satellite |-> "Terra"]]]

(***************************************************************************)
(* preprocess_data                                                         *)
(***************************************************************************)
\* Series.astype(str): an int prints its digits, a float64 prints with ".0",
\* text stays as it is.
AsTypeStr(v) ==
    IF v.kind = "int" THEN IntToText(v.n)
    ELSE IF v.kind = "float" THEN IntToText(v.n) \o <<".", "0">>
    ELSE v.s

RECURSIVE Zeros(_)
Zeros(k) == IF k <= 0 THEN <<>> ELSE <<"0">> \o Zeros(k - 1)

ZfillAlways(s, width) == <<"0">> \o s

\* str.zfill(width): pads on the left, after a leading sign; never truncates.
Zfill(s, width) ==
    IF Len(s) >= width THEN s
    ELSE IF Len(s) >= 1 /\ s[1] \in {"+", "-"}
         THEN <<s[1]>> \o Zeros(width - Len(s)) \o Tail(s)
         ELSE Zeros(width - Len(s)) \o s

NaT == [year |-> 0, month |-> 0, day |-> 0, hour |-> 0, minute |-> 0]

NoField == [ok |-> FALSE, v |-> 0, next |-> 0]

\* One numeric directive of the format read with a given number of digits:
\* the two-digit alternatives are lo..hi, the one-digit alternative is >= lo1.
Field(t, p, digits, lo, hi, lo1) ==
    IF digits = 2
    THEN IF p + 1 <= Len(t) /\ IsDigit(t[p]) /\ IsDigit(t[p + 1])
            /\ 10 * DigitVal(t[p]) + DigitVal(t[p + 1]) \in lo..hi
         THEN [ok |-> TRUE, v |-> 10 * DigitVal(t[p]) + DigitVal(t[p + 1]), next |-> p + 2]
         ELSE NoField
    ELSE IF p <= Len(t) /\ IsDigit(t[p]) /\ DigitVal(t[p]) >= lo1
         THEN [ok |-> TRUE, v |-> DigitVal(t[p]), next |-> p + 1]
         ELSE NoField

Lit(t, p, c) == p <= Len(t) /\ t[p] = c

IsLeap(y) == (y % 4 = 0 /\ y % 100 # 0) \/ y % 400 = 0

DaysInMonth(y, m) ==
    IF m = 2 THEN (IF IsLeap(y) THEN 29 ELSE 28)
    ELSE IF m \in {4, 6, 9, 11} THEN 30 ELSE 31

\* The ways to read the four numeric directives %m %d %H %M, in the order the
\* format's regular expression tries them: two digits before one, the last
\* directive retried first.
Readings ==
    << <<2,2,2,2>>, <<2,2,2,1>>, <<2,2,1,2>>, <<2,2,1,1>>,
       <<2,1,2,2>>, <<2,1,2,1>>, <<2,1,1,2>>, <<2,1,1,1>>,
       <<1,2,2,2>>, <<1,2,2,1>>, <<1,2,1,2>>, <<1,2,1,1>>,
       <<1,1,2,2>>, <<1,1,2,1>>, <<1,1,1,2>>, <<1,1,1,1>> >>

NoMatch == [ok |-> FALSE, year |-> 0, month |-> 0, day |-> 0, hour |-> 0,
            minute |-> 0, end |-> 0]

ReadMinute(t, mo, d, h, mi) ==
    IF ~mi.ok THEN NoMatch
    ELSE [ok |-> TRUE, year |-> TextToInt(SubSeq(t, 1, 4)), month |-> mo.v,
          day |-> d.v, hour |-> h.v, minute |-> mi.v, end |-> mi.next - 1]

ReadHour(t, k, mo, d, h) ==
    IF ~h.ok THEN NoMatch
    ELSE ReadMinute(t, mo, d, h, Field(t, h.next, k[4], 0, 59, 0))

ReadDay(t, k, mo, d) ==
    IF ~d.ok \/ ~Lit(t, d.next, " ") THEN NoMatch
    ELSE ReadHour(t, k, mo, d, Field(t, d.next + 1, k[3], 0, 23, 0))

ReadMonth(t, k, mo) ==
    IF ~mo.ok \/ ~Lit(t, mo.next, "-") THEN NoMatch
    ELSE ReadDay(t, k, mo, Field(t, mo.next + 1, k[2], 1, 31, 1))

\* The text read under '%Y-%m-%d %H%M' with the given digit counts.
ReadAs(t, k) ==
    IF ~(Len(t) >= 4 /\ \A i \in 1..4 : IsDigit(t[i])) \/ ~Lit(t, 5, "-") THEN NoMatch
    ELSE ReadMonth(t, k, Field(t, 6, k[1], 1, 12, 1))

\* The reading the regular expression settles on: the first that matches.
FirstReading(t) ==
    IF \A j \in 1..Len(Readings) : ~ReadAs(t, Readings[j]).ok THEN NoMatch
    ELSE ReadAs(t, Readings[CHOOSE j \in 1..Len(Readings) :
                              /\ ReadAs(t, Readings[j]).ok
                              /\ \A i \in 1..(j - 1) : ~ReadAs(t, Readings[i]).ok])

\* exact matching, calendar validation and errors='coerce'
Coerce(t, m) ==
    IF ~m.ok \/ m.end # Len(t) THEN NaT
    ELSE IF m.year < 1 \/ m.day > DaysInMonth(m.year, m.month) THEN NaT
    ELSE [year |-> m.year, month |-> m.month, day |-> m.day,
          hour |-> m.hour, minute |-> m.minute]

\* pd.to_datetime(text, format='%Y-%m-%d %H%M', errors='coerce') on one value:
\* the first reading that matches must use the whole text (exact matching) and
\* name a real calendar date; anything else is coerced to NaT.
ToDatetime(t) == Coerce(t, FirstReading(t))

\* df.dropna(subset=['acq_date', 'acq_time'])
DropNaRequired(rows) ==
    SelectSeq(rows, LAMBDA r : r.acq_date # NaN /\ r.acq_time # NaN)

\* df['acq_time'].astype(str).str.zfill(4)
NormalizeTime(r) ==
    [kind |-> "str", n |-> 0, s |-> Zfill(AsTypeStr(r.acq_time), 4)]

\* df['acq_date'] + ' ' + df['acq_time'] for one row of an object column
FusedText(r) == r.acq_date.s \o <<" ">> \o NormalizeTime(r).s

\* Whether Series + ' ' is defined: only text columns can be concatenated;
\* a numeric acq_date column (int64, or float64 when every cell is missing)
\* raises TypeError, whatever the number of rows left.
CanConcat(dtype) == dtype = "object"

Fused(r) ==
    LET ts == ToDatetime(FusedText(r))
    IN [index      |-> r.index,
        acq_date   |-> r.acq_date,
        acq_time   |-> NormalizeTime(r),
        satellite  |-> r.satellite,
        datetime   |-> ts,
        year       |-> ts.year,
        month      |-> ts.month,
        year_month |-> <<ts.year, ts.month>>]

KeepAll(fused) == fused

\* df.dropna(subset=['datetime'])
KeepParsed(fused) == SelectSeq(fused, LAMBDA r : r.datetime # NaT)

CleanColumns == AllColumns \cup {"datetime", "year", "month", "year_month"}

Raised(e) == [ok |-> FALSE, error |-> e, dropped |-> 0,
              df |-> [columns |-> {}, dtypes |-> [acq_date |-> "object", acq_time |-> "object"],
                      rows |-> <<>>]]

Preprocess(df) ==
    IF ~({"acq_date", "acq_time"} \subseteq df.columns) THEN Raised("KeyError")
    ELSE LET present == DropNaRequired(df.rows)
         IN IF ~CanConcat(df.dtypes.acq_date) THEN Raised("TypeError")
            ELSE LET fused == [i \in 1..Len(present) |-> Fused(present[i])]
                     initial_count == Len(fused)
                     kept == KeepParsed(fused)
                 IN [ok |-> TRUE, error |-> "none",
                     dropped |-> initial_count - Len(kept),
                     df |-> [columns |-> df.columns \cup CleanColumns,
                             dtypes  |-> [acq_date |-> df.dtypes.acq_date,
                                          acq_time |-> "object"],
                             rows    |-> kept]]

(***************************************************************************)
(* summarize_data                                                          *)
(***************************************************************************)
RECURSIVE Gcd(_, _)
Gcd(a, b) == IF b = 0 THEN a ELSE Gcd(b, a % b)

\* a / b as a fraction in lowest terms; a positive count over 0 is inf.
Divide(a, b) ==
    IF b = 0 THEN [num |-> 1, den |-> 0]
    ELSE [num |-> a \div Gcd(a, b), den |-> b \div Gcd(a, b)]

Years(rows) == { rows[i].year : i \in DOMAIN rows }

Months(rows) == { rows[i].month : i \in DOMAIN rows }

YearlyCountsNunique(rows) ==
    [y \in Years(rows) |->
        Cardinality({ rows[i].month : i \in { j \in DOMAIN rows : rows[j].year = y } })]

\* df.groupby('year').size()
YearlyCounts(rows) ==
    [y \in Years(rows) |-> Cardinality({ i \in DOMAIN rows : rows[i].year = y })]

\* df.groupby('month').size()
MonthlyCounts(rows) ==
    [m \in Months(rows) |-> Cardinality({ i \in DOMAIN rows : rows[i].month = m })]

\* df['year'].nunique()
Nunique(rows) == Cardinality(Years(rows))

NuniqueOfMonth(rows, m) == Cardinality({ rows[i].year : i \in { j \in DOMAIN rows : rows[j].month = m } })

\* The divisor of seasonal_means for month m: one global count of years.
Divisor(rows, m) == Nunique(rows)

\* df.groupby('month').size() / df['year'].nunique()
SeasonalMeans(rows) ==
    [m \in Months(rows) |-> Divide(MonthlyCounts(rows)[m], Divisor(rows, m))]

YearMonthCountsIgnoringMonth(rows) ==
    [k \in { <<rows[i].year, rows[i].month>> : i \in DOMAIN rows } |->
        Cardinality({ i \in DOMAIN rows : rows[i].year = k[1] })]

\* df.groupby(['year', 'month']).size()
YearMonthCounts(rows) ==
    [k \in { <<rows[i].year, rows[i].month>> : i \in DOMAIN rows } |->
        Cardinality({ i \in DOMAIN rows : rows[i].year = k[1] /\ rows[i].month = k[2] })]

UnstackNoFill(g, fill_value) ==
    [index   |-> { k[1] : k \in DOMAIN g },
     columns |-> { k[2] : k \in DOMAIN g },
     cells   |-> g]

\* Series.unstack(fill_value): the last index level becomes the columns; the
\* columns are the values that level takes, and a missing pair gets fill_value.
Unstack(g, fill_value) ==
    LET idx  == { k[1] : k \in DOMAIN g }
        cols == { k[2] : k \in DOMAIN g }
    IN [index   |-> idx,
        columns |-> cols,
        cells   |-> [k \in idx \X cols |-> IF k \in DOMAIN g THEN g[k] ELSE fill_value]]

MonthlyHeatmap(rows) == Unstack(YearMonthCounts(rows), 0)

Summarize(rows) ==
    [yearly_counts   |-> YearlyCounts(rows),
     monthly_counts  |-> MonthlyCounts(rows),
     seasonal_means  |-> SeasonalMeans(rows),
     monthly_heatmap |-> MonthlyHeatmap(rows)]

(***************************************************************************)
(* main: the state of one run                                              *)
(***************************************************************************)
VARIABLES
    file,             \* the CSV file at fire_data_path
    pc,               \* position of main
    fire_data,        \* the raw table load_data returned
    fire_data_clean,  \* the table preprocess_data returned
    dropped,          \* the count preprocess_data logs
    views,            \* what summarize_data returned
    error,            \* the exception that ended the run, if any
    trace,            \* the functions main has called, in order
    refed             \* preprocess_data applied to its own output

vars == <<file, pc, fire_data, fire_data_clean, dropped, views, error, trace, refed>>

NoFrame == [columns |-> {}, dtypes |-> [acq_date |-> "object", acq_time |-> "object"],
            rows |-> <<>>]

NoViews == [yearly_counts |-> <<>>, monthly_counts |-> <<>>, seasonal_means |-> <<>>,
            monthly_heatmap |-> [index |-> {}, columns |-> {}, cells |-> <<>>]]

NotRun == [ok |-> FALSE, error |-> "not run", dropped |-> 0, df |-> NoFrame]

StageOrder == <<"load_data", "preprocess_data", "summarize_data",
                "plot_yearly_fires", "plot_seasonal_trends", "plot_monthly_heatmap">>

Init ==
    /\ file \in Files
    /\ pc = "start"
    /\ fire_data = NoFrame
    /\ fire_data_clean = NoFrame
    /\ dropped = 0
    /\ views = NoViews
    /\ error = "none"
    /\ trace = <<>>
    /\ refed = NotRun

SwallowLoadError == "loaded"

\* load_data logs the error and re-raises: main stops.
AfterLoadError == "failed"

LoadData ==
    /\ pc = "start"
    /\ trace' = Append(trace, "load_data")
    /\ IF file.exists
       THEN /\ fire_data' = ReadCsv(file)
            /\ pc' = "loaded"
            /\ error' = error
       ELSE /\ fire_data' = fire_data
            /\ pc' = AfterLoadError
            /\ error' = "LoadError"
    /\ UNCHANGED <<file, fire_data_clean, dropped, views, refed>>

PreprocessData ==
    /\ pc = "loaded"
    /\ trace' = Append(trace, "preprocess_data")
    /\ LET res == Preprocess(fire_data)
       IN IF res.ok
          THEN /\ fire_data_clean' = res.df
               /\ dropped' = res.dropped
               /\ pc' = "cleaned"
               /\ error' = error
          ELSE /\ fire_data_clean' = fire_data_clean
               /\ dropped' = dropped
               /\ pc' = "failed"
               /\ error' = res.error
    /\ UNCHANGED <<file, fire_data, views, refed>>

SummarizeData ==
    /\ pc = "cleaned"
    /\ trace' = Append(trace, "summarize_data")
    /\ views' = Summarize(fire_data_clean.rows)
    /\ pc' = "summarized"
    /\ UNCHANGED <<file, fire_data, fire_data_clean, dropped, error, refed>>

PlotYearlyFires ==
    /\ pc = "summarized"
    /\ trace' = Append(trace, "plot_yearly_fires")
    /\ pc' = "plotted_yearly"
    /\ UNCHANGED <<file, fire_data, fire_data_clean, dropped, views, error, refed>>

PlotSeasonalTrends ==
    /\ pc = "plotted_yearly"
    /\ trace' = Append(trace, "plot_seasonal_trends")
    /\ pc' = "plotted_seasonal"
    /\ UNCHANGED <<file, fire_data, fire_data_clean, dropped, views, error, refed>>

PlotMonthlyHeatmap ==
    /\ pc = "plotted_seasonal"
    /\ trace' = Append(trace, "plot_monthly_heatmap")
    /\ pc' = "done"
    /\ UNCHANGED <<file, fire_data, fire_data_clean, dropped, views, error, refed>>

Next ==
    \/ LoadData
    \/ PreprocessData
    \/ SummarizeData
    \/ PlotYearlyFires
    \/ PlotSeasonalTrends
    \/ PlotMonthlyHeatmap

Spec == Init /\ [][Next]_vars

\* The Cleaner re-applied to the table it returned.
Refeed ==
    /\ pc = "cleaned"
    /\ refed' = Preprocess(fire_data_clean)
    /\ pc' = "refed"
    /\ UNCHANGED <<file, fire_data, fire_data_clean, dropped, views, error, trace>>

NextIdem ==
    \/ LoadData
    \/ PreprocessData
    \/ Refeed

SpecIdem == Init /\ [][NextIdem]_vars

(***************************************************************************)
(* Properties                                                              *)
(***************************************************************************)
PostClean == {"cleaned", "summarized", "plotted_yearly", "plotted_seasonal", "done", "refed"}

PostSummarize == {"summarized", "plotted_yearly", "plotted_seasonal", "done"}

RECURSIVE SumOver(_, _)
SumOver(f, S) ==
    IF S = {} THEN 0
    ELSE LET x == CHOOSE e \in S : TRUE IN f[x] + SumOver(f, S \ {x})

\* C1: every cleaned row has a non-null timestamp whose year and month (1..12)
\* are the row's year and month, and is one of the raw rows with its date and
\* passthrough field unchanged; rows are only dropped: each raw row appears at
\* most once and in file order.
C1_CleanedRowsAreValidRawRows ==
    pc \in PostClean =>
        LET c == fire_data_clean.rows
            raw == fire_data.rows
        IN /\ \A i \in DOMAIN c :
                /\ c[i].datetime # NaT
                /\ c[i].year = c[i].datetime.year
                /\ c[i].month = c[i].datetime.month
                /\ c[i].month \in 1..12
                /\ c[i].index \in DOMAIN raw
                /\ raw[c[i].index].index = c[i].index
                /\ raw[c[i].index].acq_date = c[i].acq_date
                /\ raw[c[i].index].satellite = c[i].satellite
           /\ \A i, j \in DOMAIN c : i < j => c[i].index < c[j].index

\* C1 witness: a cleaned table that kept a row and dropped another.
C1_Witness ==
    /\ pc = "cleaned"
    /\ Len(fire_data_clean.rows) >= 1
    /\ Len(fire_data_clean.rows) < Len(fire_data.rows)

\* The digits of a time value as the claim reads it (705 is "705").
ClaimTimeText(v) == IF v.kind \in {"int", "float"} THEN IntToText(v.n) ELSE v.s

ClaimPad4(t) == IF Len(t) >= 4 THEN t ELSE Zeros(4 - Len(t)) \o t

\* YYYY-MM-DD HHMM exactly, all components in range.
StrictMatch(t) ==
    /\ Len(t) = 15
    /\ \A i \in {1, 2, 3, 4, 6, 7, 9, 10, 12, 13, 14, 15} : IsDigit(t[i])
    /\ t[5] = "-" /\ t[8] = "-" /\ t[11] = " "
    /\ TextToInt(SubSeq(t, 1, 4)) >= 1
    /\ TextToInt(SubSeq(t, 6, 7)) \in 1..12
    /\ TextToInt(SubSeq(t, 9, 10)) \in
           1..DaysInMonth(TextToInt(SubSeq(t, 1, 4)), TextToInt(SubSeq(t, 6, 7)))
    /\ TextToInt(SubSeq(t, 12, 13)) \in 0..23
    /\ TextToInt(SubSeq(t, 14, 15)) \in 0..59

\* C2 (as claimed): for every raw row with acq_date and acq_time present, the
\* time becomes its digits left-padded to 4 characters, and the row is kept
\* (with that text) exactly when date, space and padded time match
\* YYYY-MM-DD HHMM with all components in range.
C2_PaddedTimeDecidesKeep ==
    pc \in PostClean =>
        \A i \in DOMAIN fire_data.rows :
            LET r == fire_data.rows[i]
            IN (r.acq_date # NaN /\ r.acq_time # NaN /\ r.acq_date.kind = "str") =>
                  LET padded == ClaimPad4(ClaimTimeText(r.acq_time))
                  IN (\E j \in DOMAIN fire_data_clean.rows :
                         /\ fire_data_clean.rows[j].index = i
                         /\ fire_data_clean.rows[j].acq_time.s = padded)
                     <=> StrictMatch(r.acq_date.s \o <<" ">> \o padded)

\* C3 (as claimed): monthly_heatmap has one row per observed year and a column
\* for every month 1 to 12, absent combinations holding 0.
C3_TwelveColumns ==
    (pc \in PostSummarize /\ fire_data_clean.rows # <<>>) =>
        LET h == views.monthly_heatmap
        IN /\ h.index = Years(fire_data_clean.rows)
           /\ h.columns = 1..12
           /\ DOMAIN h.cells = h.index \X h.columns

\* C3 (amended): monthly_heatmap has exactly one row per observed year and one
\* column per month observed in at least one year; every cell of that grid is
\* present and holds the number of records of that year and month, an explicit
\* 0 when there is none.
C3_ObservedMonthColumnsZeroFilled ==
    pc \in PostSummarize =>
        LET h == views.monthly_heatmap
            rows == fire_data_clean.rows
        IN /\ h.index = { rows[i].year : i \in DOMAIN rows }
           /\ h.columns = { rows[i].month : i \in DOMAIN rows }
           /\ h.columns \subseteq 1..12
           /\ DOMAIN h.cells = h.index \X h.columns
           /\ \A k \in h.index \X h.columns :
                 h.cells[k] = Cardinality({ i \in DOMAIN rows :
                                  rows[i].year = k[1] /\ rows[i].month = k[2] })

\* C3 witness: a heatmap with a zero-filled cell.
C3_Witness ==
    /\ pc = "summarized"
    /\ \E k \in DOMAIN views.monthly_heatmap.cells : views.monthly_heatmap.cells[k] = 0

\* C4: the yearly counts and the monthly counts both sum to the number of
\* cleaned rows, and the keys of yearly_counts are exactly the years present.
C4_CountsSumToRows ==
    pc \in PostSummarize =>
        LET rows == fire_data_clean.rows
        IN /\ SumOver(views.yearly_counts, DOMAIN views.yearly_counts) = Len(rows)
           /\ SumOver(views.monthly_counts, DOMAIN views.monthly_counts) = Len(rows)
           /\ DOMAIN views.yearly_counts = { rows[i].year : i \in DOMAIN rows }

\* C4 witness: a cleaned table with two rows of the same year.
C4_Witness ==
    /\ pc = "summarized"
    /\ Len(fire_data_clean.rows) >= 2
    /\ \E y \in DOMAIN views.yearly_counts : views.yearly_counts[y] >= 2

\* C5: each heatmap row sums to yearly_counts of its year and each heatmap
\* column of a month of monthly_counts sums to monthly_counts of that month.
C5_HeatmapMargins ==
    pc \in PostSummarize =>
        LET h == views.monthly_heatmap
        IN /\ DOMAIN views.yearly_counts = h.index
           /\ DOMAIN views.monthly_counts \subseteq h.columns
           /\ \A y \in h.index :
                 SumOver([m \in h.columns |-> h.cells[<<y, m>>]], h.columns)
                     = views.yearly_counts[y]
           /\ \A m \in DOMAIN views.monthly_counts :
                 SumOver([y \in h.index |-> h.cells[<<y, m>>]], h.index)
                     = views.monthly_counts[m]

\* C5 witness: a heatmap of two years and two months.
C5_Witness ==
    /\ pc = "summarized"
    /\ Cardinality(views.monthly_heatmap.index) = 2
    /\ Cardinality(views.monthly_heatmap.columns) = 2

\* C6: for a non-empty cleaned table seasonal_means has the month keys of
\* monthly_counts, and each mean times the number of distinct years of the
\* whole table is the monthly count.
C6_SeasonalMeansGlobalDivisor ==
    (pc \in PostSummarize /\ fire_data_clean.rows # <<>>) =>
        LET rows == fire_data_clean.rows
            nyears == Cardinality({ rows[i].year : i \in DOMAIN rows })
        IN /\ DOMAIN views.seasonal_means = DOMAIN views.monthly_counts
           /\ DOMAIN views.seasonal_means = { rows[i].month : i \in DOMAIN rows }
           /\ \A m \in DOMAIN views.seasonal_means :
                 /\ views.seasonal_means[m].den > 0
                 /\ views.seasonal_means[m].num * nyears
                        = views.monthly_counts[m] * views.seasonal_means[m].den

\* C6 witness: a month that occurs in fewer years than the table spans.
C6_Witness ==
    /\ pc = "summarized"
    /\ \E m \in DOMAIN views.seasonal_means :
          /\ views.seasonal_means[m].den = 2
          /\ views.monthly_counts[m] = 1

\* A raw row the Cleaner has to drop: a required field is missing, or its
\* date and padded time do not parse.
RowFails(r) ==
    \/ r.acq_date = NaN
    \/ r.acq_time = NaN
    \/ ToDatetime(AsTypeStr(r.acq_date) \o <<" ">> \o Zfill(AsTypeStr(r.acq_time), 4)) = NaT

\* C7 (as claimed): when every raw row fails the required-field filter or the
\* timestamp parsing, the Cleaner returns an empty table and the Aggregator
\* returns four empty views without raising.
C7_AllDroppedGivesEmptyViews ==
    (/\ pc \notin {"start", "loaded"}
     /\ error # "LoadError"
     /\ {"acq_date", "acq_time"} \subseteq fire_data.columns
     /\ \A i \in DOMAIN fire_data.rows : RowFails(fire_data.rows[i]))
    => /\ pc # "failed"
       /\ fire_data_clean.rows = <<>>
       /\ pc \in PostSummarize =>
             /\ DOMAIN views.yearly_counts = {}
             /\ DOMAIN views.monthly_counts = {}
             /\ DOMAIN views.seasonal_means = {}
             /\ views.monthly_heatmap.index = {}
             /\ DOMAIN views.monthly_heatmap.cells = {}

\* C8 (as claimed): with both columns present the Cleaner never raises, whatever
\* the rows hold; it raises exactly when acq_date or acq_time is no column.
C8_CleanerRaisesOnlyStructurally ==
    /\ (pc = "failed" /\ error # "LoadError")
           => ~({"acq_date", "acq_time"} \subseteq fire_data.columns)
    /\ pc \in PostClean => {"acq_date", "acq_time"} \subseteq fire_data.columns

\* C9: the Cleaner applied to its own output drops no row and returns the same
\* rows with the same timestamp, year, month and year_month.
C9_CleanerIdempotent ==
    pc = "refed" =>
        /\ refed.ok
        /\ refed.dropped = 0
        /\ refed.df.rows = fire_data_clean.rows

\* C9 witness: the re-run of a table holding a row whose time had to be padded.
C9_Witness ==
    /\ pc = "refed"
    /\ \E i \in DOMAIN fire_data_clean.rows :
          LET r == fire_data.rows[fire_data_clean.rows[i].index]
          IN r.acq_time.kind = "int" /\ r.acq_time.n < 1000

IsPrefix(a, b) == Len(a) <= Len(b) /\ a = SubSeq(b, 1, Len(a))

\* C10: the stages run in the fixed order, each at most once and each on the
\* finished output of the one before; after a Loader failure or a structural
\* Cleaner failure the run is over, no later stage has run and no table was
\* passed on.
C10_FixedOrderAbortOnFailure ==
    /\ IsPrefix(trace, StageOrder)
    /\ Len(trace) >= 2 => fire_data.columns # {}
    /\ Len(trace) >= 3 => fire_data_clean.columns # {} /\ error = "none"
    /\ Len(trace) >= 4 => views = Summarize(fire_data_clean.rows)
    /\ error = "LoadError" =>
          pc = "failed" /\ trace = <<"load_data">> /\ fire_data = NoFrame
    /\ error = "KeyError" =>
          /\ pc = "failed"
          /\ trace = <<"load_data", "preprocess_data">>
          /\ fire_data_clean = NoFrame
          /\ views = NoViews
    /\ pc = "failed" <=> error # "none"

\* C10 witness: a run in which all six stages have run.
C10_Witness == pc = "done" /\ trace = StageOrder

====
